---- MODULE Spec2Model ----
(***************************************************************************)
(* MotionClassifier (src/script.js): a time-windowed feature extractor and *)
(* 3-class classifier over a stream of 3-axis acceleration samples.        *)
(*                                                                         *)
(* Numbers.  JavaScript numbers are modelled exactly where the model needs *)
(* them: timestamps, windowMs and minSamples are integers; magnitudes,     *)
(* thresholds and means are rationals [n |-> numerator, d |-> denominator] *)
(* in lowest terms with d > 0; a square root that is not rational is kept  *)
(* as the surd [sqrtOf |-> q], the non-negative root of the rational q,    *)
(* and is compared with rationals through its square.  -Infinity is        *)
(* NegInf.  Sample vectors are drawn from a set whose magnitudes are       *)
(* rational, because the mean sums magnitudes.  The rounding of doubles is *)
(* modelled apart, by the double arithmetic below and the features         *)
(* computed with it (magnitudeF, meanF, stdF).                             *)
(*                                                                         *)
(* null / undefined are the empty sequence <<>>; a present value v is the  *)
(* one-element sequence <<v>>.                                             *)
(***************************************************************************)
EXTENDS Integers, Sequences, FiniteSets, TLC

VARIABLES
    classifier,       \* the MotionClassifier instance: configuration and window fields
    given,            \* history: the config object the constructor was handed
    call,             \* history: the last call made on the instance, [op, arg]
    ret,              \* history: what that call returned (Null or <<result>>)
    pre,              \* history: the instance as it was when that call began
    startUsed,        \* history: this.windowStart as read at line 51 of that call
    callsSinceReset,  \* history: addSample calls since construction, reset() or a window close
    nextId,           \* history: identity given to the next sample object
    closedIds,        \* history: identities of the samples of every closed window
    resultIds,        \* history: per returned result, the identities it counted
    fp,               \* a window of magnitudes as doubles, and its features
    app               \* the page: its globals, its sensor listeners and its clock

vars == <<classifier, given, call, ret, pre, startUsed, callsSinceReset, nextId,
          closedIds, resultIds, fp, app>>

(***************************************************************************)
(* Bounds of the model.                                                    *)
(***************************************************************************)
MaxLen == 3      \* addSample is not called on a window that holds MaxLen samples
MaxT == 2        \* timestamps are drawn from 0..MaxT, in any order
MaxCalls == 5    \* addSample calls in a run that tracks sample identities
FMaxLen == 3     \* magnitudes in a window whose features are computed in doubles
MaxNow == 1200   \* the page is followed for MaxNow ms after it loads
MaxSessions == 3 \* startTracking and stopTracking calls that reach classifier.reset()

Times == 0..MaxT

Null == <<>>
Some(v) == <<v>>

(***************************************************************************)
(* Exact arithmetic.                                                       *)
(***************************************************************************)
Abs(i) == IF i < 0 THEN -i ELSE i

RECURSIVE GCD(_, _)
GCD(a, b) == IF b = 0 THEN a ELSE GCD(b, a % b)

Rat(n, d) ==
    LET g == GCD(Abs(n), Abs(d))
        s == IF d < 0 THEN -1 ELSE 1
    IN  [n |-> (s * n) \div g, d |-> (s * d) \div g]

Num(i) == Rat(i, 1)

NegInf == [inf |-> -1]

IsSurd(a) == "sqrtOf" \in DOMAIN a

RatAdd(a, b) == Rat(a.n * b.d + b.n * a.d, a.d * b.d)
RatSub(a, b) == Rat(a.n * b.d - b.n * a.d, a.d * b.d)
RatMul(a, b) == Rat(a.n * b.n, a.d * b.d)
RatDivInt(a, k) == Rat(a.n, a.d * k)
RatLT(a, b) == a.n * b.d < b.n * a.d

IsSquare(k) == \E r \in 0..k : r * r = k
IntRoot(k) == CHOOSE r \in 0..k : r * r = k

\* Math.sqrt on a non-negative rational
MathSqrt(q) ==
    IF IsSquare(q.n) /\ IsSquare(q.d)
    THEN Rat(IntRoot(q.n), IntRoot(q.d))
    ELSE [sqrtOf |-> q]

\* a > b and a < b, for a a rational, a surd or -Infinity and b a rational
GT(a, b) ==
    IF a = NegInf THEN FALSE
    ELSE IF IsSurd(a)
         THEN b.n < 0 \/ RatLT(RatMul(b, b), a.sqrtOf)
         ELSE RatLT(b, a)

LT(a, b) ==
    IF a = NegInf THEN TRUE
    ELSE IF IsSurd(a)
         THEN b.n > 0 /\ RatLT(a.sqrtOf, RatMul(b, b))
         ELSE RatLT(a, b)

\* Math.max(a, b) for rationals and -Infinity
MathMax(a, b) ==
    IF a = NegInf THEN b
    ELSE IF b = NegInf THEN a
    ELSE IF RatLT(a, b) THEN b ELSE a

(***************************************************************************)
(* Double arithmetic.  A JavaScript number is an IEEE 754 double: here     *)
(* [sign, man, exp] stands for (-1)^sign * man * 2^exp, with man either 0  *)
(* or a natural number of exactly 53 bits, and every operation rounds its  *)
(* exact result to the nearest such number, ties to even.  Naturals wider  *)
(* than the checker's integers are sequences of 15-bit limbs, least        *)
(* significant first, without leading zero limbs.  NaN, infinities,        *)
(* overflow and subnormal results are outside the inputs used.             *)
(***************************************************************************)
Limb == 32768

RECURSIVE Pow2(_)
Pow2(k) == IF k = 0 THEN 1 ELSE 2 * Pow2(k - 1)

RECURSIVE BTrim(_)
BTrim(a) ==
    IF a = <<>> THEN a
    ELSE IF a[Len(a)] = 0 THEN BTrim(SubSeq(a, 1, Len(a) - 1)) ELSE a

BFromInt(k) == BTrim(<<k % Limb, (k \div Limb) % Limb, k \div (Limb * Limb)>>)

BLimb(a, i) == IF i <= Len(a) THEN a[i] ELSE 0

RECURSIVE BCmpFrom(_, _, _)
BCmpFrom(a, b, i) ==
    IF i = 0 THEN 0
    ELSE IF a[i] < b[i] THEN -1
    ELSE IF a[i] > b[i] THEN 1
    ELSE BCmpFrom(a, b, i - 1)

\* -1, 0 or 1 as a < b, a = b or a > b
BCmp(a, b) ==
    IF Len(a) < Len(b) THEN -1
    ELSE IF Len(a) > Len(b) THEN 1
    ELSE BCmpFrom(a, b, Len(a))

RECURSIVE BAddFrom(_, _, _, _)
BAddFrom(a, b, i, carry) ==
    IF i > Len(a) /\ i > Len(b)
    THEN IF carry = 0 THEN <<>> ELSE <<carry>>
    ELSE LET t == BLimb(a, i) + BLimb(b, i) + carry
         IN  <<t % Limb>> \o BAddFrom(a, b, i + 1, t \div Limb)

BAdd(a, b) == BAddFrom(a, b, 1, 0)

RECURSIVE BSubFrom(_, _, _, _)
BSubFrom(a, b, i, borrow) ==
    IF i > Len(a) THEN <<>>
    ELSE LET t == a[i] - BLimb(b, i) - borrow
         IN  IF t < 0 THEN <<t + Limb>> \o BSubFrom(a, b, i + 1, 1)
             ELSE <<t>> \o BSubFrom(a, b, i + 1, 0)

\* a - b, for a >= b
BSub(a, b) == BTrim(BSubFrom(a, b, 1, 0))

RECURSIVE BMulSmallFrom(_, _, _, _)
BMulSmallFrom(a, k, i, carry) ==
    IF i > Len(a)
    THEN IF carry = 0 THEN <<>> ELSE <<carry>>
    ELSE LET t == a[i] * k + carry
         IN  <<t % Limb>> \o BMulSmallFrom(a, k, i + 1, t \div Limb)

\* a * k, for 0 <= k < Limb
BMulSmall(a, k) == BTrim(BMulSmallFrom(a, k, 1, 0))

BShlLimbs(a, n) == IF a = <<>> THEN a ELSE [i \in 1..n |-> 0] \o a

RECURSIVE BMulFrom(_, _, _)
BMulFrom(a, b, i) ==
    IF i > Len(b) THEN <<>>
    ELSE BAdd(BShlLimbs(BMulSmall(a, b[i]), i - 1), BMulFrom(a, b, i + 1))

BMul(a, b) == BMulFrom(a, b, 1)

RECURSIVE BDivSmallFrom(_, _, _, _)
BDivSmallFrom(a, k, i, rem) ==
    IF i = 0 THEN [q |-> <<>>, r |-> rem]
    ELSE LET t == rem * Limb + a[i]
             rest == BDivSmallFrom(a, k, i - 1, t % k)
         IN  [q |-> rest.q \o <<t \div k>>, r |-> rest.r]

\* quotient and remainder of a by k, for 0 < k < Limb
BDivSmall(a, k) ==
    LET d == BDivSmallFrom(a, k, Len(a), 0) IN [q |-> BTrim(d.q), r |-> d.r]

\* a * 2^n
BShl(a, n) == BShlLimbs(BMulSmall(a, Pow2(n % 15)), n \div 15)

\* floor(a / 2^n)
BShr(a, n) ==
    IF n \div 15 >= Len(a) THEN <<>>
    ELSE BDivSmall(SubSeq(a, (n \div 15) + 1, Len(a)), Pow2(n % 15)).q

RECURSIVE IntBitLen(_)
IntBitLen(k) == IF k = 0 THEN 0 ELSE 1 + IntBitLen(k \div 2)

BBitLen(a) == IF a = <<>> THEN 0 ELSE 15 * (Len(a) - 1) + IntBitLen(a[Len(a)])

BIsOdd(a) == a # <<>> /\ a[1] % 2 = 1

\* digit by digit: a is what remains, r the root so far, bit a power of 4
RECURSIVE BSqrtFrom(_, _, _)
BSqrtFrom(a, r, bit) ==
    IF bit = <<>> THEN r
    ELSE LET t == BAdd(r, bit)
         IN  IF BCmp(a, t) >= 0
             THEN BSqrtFrom(BSub(a, t), BAdd(BShr(r, 1), bit), BShr(bit, 2))
             ELSE BSqrtFrom(a, BShr(r, 1), BShr(bit, 2))

\* floor of the square root of a
BSqrt(a) ==
    IF a = <<>> THEN a
    ELSE BSqrtFrom(a, <<>>, BShl(<<1>>, 2 * ((BBitLen(a) - 1) \div 2)))

FZero == [sign |-> 0, man |-> <<>>, exp |-> 0]

\* the double nearest to (-1)^sign * (man + f) * 2^exp, where 0 <= f < 1 and
\* sticky tells whether f > 0; ties go to the even mantissa
FRound(sign, man, exp, sticky) ==
    LET bl == BBitLen(man) IN
    IF man = <<>> THEN FZero
    ELSE IF bl <= 53
    THEN [sign |-> sign, man |-> BShl(man, 53 - bl), exp |-> exp - (53 - bl)]
    ELSE LET sh == bl - 53
             q == BShr(man, sh)
             rem == BSub(man, BShl(q, sh))
             c == BCmp(rem, BShl(<<1>>, sh - 1))
             up == c > 0 \/ (c = 0 /\ (sticky \/ BIsOdd(q)))
             m == IF up THEN BAdd(q, <<1>>) ELSE q
         IN  IF BBitLen(m) = 54
             THEN [sign |-> sign, man |-> BShr(m, 1), exp |-> exp + sh + 1]
             ELSE [sign |-> sign, man |-> m, exp |-> exp + sh]

\* an integer as a double
FInt(k) == FRound(IF k < 0 THEN 1 ELSE 0, BFromInt(Abs(k)), 0, FALSE)

FNeg(a) == IF a.man = <<>> THEN a ELSE [a EXCEPT !.sign = 1 - a.sign]

\* -1, 0 or 1 as |a| < |b|, |a| = |b| or |a| > |b|
FCmpAbs(a, b) ==
    IF a.man = <<>> THEN (IF b.man = <<>> THEN 0 ELSE -1)
    ELSE IF b.man = <<>> THEN 1
    ELSE IF a.exp # b.exp THEN (IF a.exp < b.exp THEN -1 ELSE 1)
    ELSE BCmp(a.man, b.man)

\* a + b
FAdd(a, b) ==
    IF a.man = <<>> THEN b
    ELSE IF b.man = <<>> THEN a
    ELSE LET e == IF a.exp < b.exp THEN a.exp ELSE b.exp
             am == BShl(a.man, a.exp - e)
             bm == BShl(b.man, b.exp - e)
             c == BCmp(am, bm)
         IN  IF a.sign = b.sign THEN FRound(a.sign, BAdd(am, bm), e, FALSE)
             ELSE IF c = 0 THEN FZero
             ELSE IF c > 0 THEN FRound(a.sign, BSub(am, bm), e, FALSE)
             ELSE FRound(b.sign, BSub(bm, am), e, FALSE)

\* a - b
FSub(a, b) == FAdd(a, FNeg(b))

\* a * b
FMul(a, b) ==
    FRound((a.sign + b.sign) % 2, BMul(a.man, b.man), a.exp + b.exp, FALSE)

\* a / k for an integer k with 0 < k < Limb
FDivInt(a, k) ==
    LET d == BDivSmall(BShl(a.man, 64), k)
    IN  FRound(a.sign, d.q, a.exp - 64, d.r # 0)

\* Math.sqrt(a), for a >= 0
FSqrt(a) ==
    LET sh == IF (a.exp - 58) % 2 = 0 THEN 58 ELSE 59
        wide == BShl(a.man, sh)
        r == BSqrt(wide)
    IN  FRound(0, r, (a.exp - sh) \div 2, BCmp(BMul(r, r), wide) # 0)

\* a < b
FLess(a, b) ==
    IF a.sign # b.sign THEN a.sign = 1
    ELSE IF a.sign = 0 THEN FCmpAbs(a, b) < 0 ELSE FCmpAbs(a, b) > 0

\* Math.max(a, b) for doubles and -Infinity
FMax(a, b) ==
    IF a = NegInf THEN b
    ELSE IF b = NegInf THEN a
    ELSE IF FLess(a, b) THEN b ELSE a

(***************************************************************************)
(* MotionClassifier                                                        *)
(***************************************************************************)
LABEL_SITTING == "Sitting"
LABEL_WALK == "Walk"
LABEL_JUMP == "Jump"

DefaultWindowMs == 500
DefaultMinSamples == 10
DefaultSitStdThreshold == Rat(1, 2)
DefaultJumpStdThreshold == Num(3)
DefaultJumpMaxThreshold == Num(15)

\* v || dflt for a field holding an integer: undefined and 0 are falsy
OrInt(v, dflt) == IF v = Null \/ v[1] = 0 THEN dflt ELSE v[1]
\* v || dflt for a field holding a rational
OrRat(v, dflt) == IF v = Null \/ v[1].n = 0 THEN dflt ELSE v[1]

\* mutant: reset() leaves the sample sequence in place
reset_keepsSamples(this) == [this EXCEPT !.windowStart = Null, !.mags = <<>>]

reset(this) ==
    [this EXCEPT !.windowStart = Null, !.mags = <<>>, !.samples = <<>>]

MotionClassifier(config) ==
    reset([windowMs         |-> OrInt(config.windowMs, DefaultWindowMs),
           minSamples       |-> OrInt(config.minSamples, DefaultMinSamples),
           sitStdThreshold  |-> OrRat(config.sitStdThreshold, DefaultSitStdThreshold),
           jumpStdThreshold |-> OrRat(config.jumpStdThreshold, DefaultJumpStdThreshold),
           jumpMaxThreshold |-> OrRat(config.jumpMaxThreshold, DefaultJumpMaxThreshold),
           windowStart      |-> Null,
           mags             |-> <<>>,
           samples          |-> <<>>])

magnitude(x, y, z) == MathSqrt(Num(x * x + y * y + z * z))

\* arr.reduce((sum, val) => sum + val, 0)
RECURSIVE SumFrom(_, _, _)
SumFrom(arr, i, acc) ==
    IF i > Len(arr) THEN acc ELSE SumFrom(arr, i + 1, RatAdd(acc, arr[i]))

mean(arr) ==
    IF Len(arr) = 0 THEN Num(0)
    ELSE RatDivInt(SumFrom(arr, 1, Num(0)), Len(arr))

std(arr) ==
    IF Len(arr) = 0 THEN Num(0)
    ELSE LET avg == mean(arr)
             squareDiffs == [i \in 1..Len(arr) |->
                                RatMul(RatSub(arr[i], avg), RatSub(arr[i], avg))]
         IN  MathSqrt(mean(squareDiffs))

\* arr.reduce((a, b) => Math.max(a, b), -Infinity)
RECURSIVE MaxFrom(_, _, _)
MaxFrom(arr, i, acc) ==
    IF i > Len(arr) THEN acc ELSE MaxFrom(arr, i + 1, MathMax(acc, arr[i]))

\* lines 23-25 in double arithmetic
magnitudeF(x, y, z) == FSqrt(FAdd(FAdd(FMul(x, x), FMul(y, y)), FMul(z, z)))

\* arr.reduce((sum, val) => sum + val, 0) in double arithmetic
RECURSIVE SumFromF(_, _, _)
SumFromF(arr, i, acc) ==
    IF i > Len(arr) THEN acc ELSE SumFromF(arr, i + 1, FAdd(acc, arr[i]))

\* lines 27-30 in double arithmetic
meanF(arr) ==
    IF Len(arr) = 0 THEN FZero
    ELSE FDivInt(SumFromF(arr, 1, FZero), Len(arr))

\* mutant: the squared differences are averaged over n - 1 of them
stdF_sample(arr) ==
    IF Len(arr) <= 1 THEN FZero
    ELSE LET avg == meanF(arr)
             squareDiffs == [i \in 1..Len(arr) |->
                                FMul(FSub(arr[i], avg), FSub(arr[i], avg))]
         IN  FSqrt(FDivInt(SumFromF(squareDiffs, 1, FZero), Len(arr) - 1))

\* lines 32-37 in double arithmetic; Math.pow(d, 2) is the rounded product d * d
stdF(arr) ==
    IF Len(arr) = 0 THEN FZero
    ELSE LET avg == meanF(arr)
             squareDiffs == [i \in 1..Len(arr) |->
                                FMul(FSub(arr[i], avg), FSub(arr[i], avg))]
         IN  FSqrt(meanF(squareDiffs))

\* arr.reduce((a, b) => Math.max(a, b), -Infinity) on doubles
RECURSIVE MaxFromF(_, _, _)
MaxFromF(arr, i, acc) ==
    IF i > Len(arr) THEN acc ELSE MaxFromF(arr, i + 1, FMax(acc, arr[i]))

\* lines 60-68 in double arithmetic
extractFeaturesF(mags) ==
    [mean_mag |-> meanF(mags),
     std_mag  |-> stdF(mags),
     max_mag  |-> MaxFromF(mags, 1, NegInf)]

\* mutant: the window start is overwritten by every sample
startWindow_everySample(this, tMs) == [this EXCEPT !.windowStart = Some(tMs)]

\* lines 41-43: the window starts at the first sample admitted while it is empty
startWindow(this, tMs) ==
    IF this.windowStart = Null THEN [this EXCEPT !.windowStart = Some(tMs)] ELSE this

\* lines 46-48: the magnitude and the sample object are appended
pushSample(this, s) ==
    LET mag == magnitude(s.x, s.y, s.z)
    IN  [this EXCEPT !.mags = Append(@, mag),
                     !.samples = Append(@, [tMs |-> s.tMs, x |-> s.x, y |-> s.y,
                                            z |-> s.z, mag |-> mag, id |-> s.id])]

\* mutant: the boundary sample does not close the window
windowComplete_strict(this, tMs) == tMs - this.windowStart[1] > this.windowMs

\* mutant: the window closes on a sample count, not on elapsed time
windowComplete_byCount(this, tMs) == Len(this.mags) >= this.minSamples

\* line 51: tMs - this.windowStart >= this.windowMs
windowComplete(this, tMs) == tMs - this.windowStart[1] >= this.windowMs

\* mutant: a window one sample short of the minimum is classified
tooFewSamples_offByOne(this) == Len(this.mags) < this.minSamples - 1

\* line 53: this.mags.length < this.minSamples
tooFewSamples(this) == Len(this.mags) < this.minSamples

\* mutant: a discarded window also puts the window length and sample minimum
\* back to their defaults
discardWindow_toDefaults(this) ==
    [this    |-> [reset(this) EXCEPT !.windowMs = DefaultWindowMs,
                                     !.minSamples = DefaultMinSamples],
     ret     |-> Null,
     counted |-> {}]

\* mutant: the discard branch returns without reset()
discardWindow_noReset(this) == [this |-> this, ret |-> Null, counted |-> {}]

\* lines 53-57: the window is discarded
discardWindow(this) == [this |-> reset(this), ret |-> Null, counted |-> {}]

\* lines 60-68
extractFeatures(this) ==
    [mean_mag |-> mean(this.mags),
     std_mag  |-> std(this.mags),
     max_mag  |-> MaxFrom(this.mags, 1, NegInf)]

\* mutant: the maximum takes no part in the rule
classify_stdOnly(this, features) ==
    IF GT(features.std_mag, this.jumpStdThreshold)
    THEN LABEL_JUMP
    ELSE IF LT(features.std_mag, this.sitStdThreshold)
         THEN LABEL_SITTING
         ELSE LABEL_WALK

\* mutant: the sit test is made before the jump test
classify_sitFirst(this, features) ==
    IF LT(features.std_mag, this.sitStdThreshold)
    THEN LABEL_SITTING
    ELSE IF GT(features.std_mag, this.jumpStdThreshold)
            \/ GT(features.max_mag, this.jumpMaxThreshold)
         THEN LABEL_JUMP
         ELSE LABEL_WALK

\* lines 71-78: the 3-class rule
classify(this, features) ==
    IF GT(features.std_mag, this.jumpStdThreshold)
       \/ GT(features.max_mag, this.jumpMaxThreshold)
    THEN LABEL_JUMP
    ELSE IF LT(features.std_mag, this.sitStdThreshold)
         THEN LABEL_SITTING
         ELSE LABEL_WALK

\* mutant: the result is returned without reset()
classifyWindow_noReset(this) ==
    [this    |-> this,
     ret     |-> Some([label    |-> classify(this, extractFeatures(this)),
                       features |-> extractFeatures(this),
                       samples  |-> Len(this.samples)]),
     counted |-> {this.samples[i].id : i \in 1..Len(this.samples)}]

\* lines 59-89: the window is classified; counted is the set of identities of the
\* sample objects in this.samples when the result is built
classifyWindow(this) ==
    LET features == extractFeatures(this)
        result == [label    |-> classify(this, features),
                   features |-> features,
                   samples  |-> Len(this.samples)]
    IN  [this    |-> reset(this),
         ret     |-> Some(result),
         counted |-> {this.samples[i].id : i \in 1..Len(this.samples)}]

\* lines 39-93; start is this.windowStart as line 51 reads it
addSample(this, s) ==
    LET opened == startWindow(this, s.tMs)
        pushed == pushSample(opened, s)
        out == IF windowComplete(pushed, s.tMs)
               THEN IF tooFewSamples(pushed)
                    THEN discardWindow(pushed)
                    ELSE classifyWindow(pushed)
               ELSE [this |-> pushed, ret |-> Null, counted |-> {}]
    IN  [this |-> out.this, ret |-> out.ret, counted |-> out.counted,
         start |-> pushed.windowStart]

(***************************************************************************)
(* Inputs.                                                                 *)
(***************************************************************************)
\* acceleration vectors (x, y, z), with magnitudes 1, 5 and 16
Vectors == {<<0, 0, 1>>, <<3, 4, 0>>, <<0, 0, -16>>}

Config(w, m, sit, jstd, jmax) ==
    [windowMs |-> w, minSamples |-> m, sitStdThreshold |-> sit,
     jumpStdThreshold |-> jstd, jumpMaxThreshold |-> jmax]

\* configuration objects handed to the constructor: a field is supplied, or
\* not (Null), and a supplied value may be zero or negative
ConfigInputs ==
    { Config(Some(2), Some(2), Null, Null, Null),
      Config(Some(2), Some(0), Some(Num(0)), Some(Num(0)), Some(Num(0))),
      Config(Some(2), Some(3), Some(Num(5)), Some(Num(1)), Some(Num(15))),
      Config(Some(1), Some(-1), Some(Rat(1, 2)), Some(Num(3)), Some(Num(-1))),
      Config(Some(-1), Some(1), Some(Num(-2)), Some(Num(7)), Some(Num(14))) }

\* the configurations and inputs of the runs that track sample identities
TrackedConfigInputs ==
    { Config(Some(2), Some(2), Null, Null, Null),
      Config(Some(2), Some(3), Null, Null, Null) }
TrackedVectors == {<<0, 0, 1>>, <<0, 0, 16>>}
TrackedTimes == {0, 1, 2}

(***************************************************************************)
(* The calls on the instance, with their history.                          *)
(***************************************************************************)
\* the elapsed time the call described by (p, c) measured: the timestamp minus
\* the window start, the start being the timestamp itself on an empty window
Elapsed(p, c) ==
    c.arg[1].tMs - (IF p.windowStart = Null THEN c.arg[1].tMs ELSE p.windowStart[1])

\* the last call was an addSample that met the elapsed-time condition
ElapsedMet == call.op = "addSample" /\ Elapsed(pre, call) >= pre.windowMs

\* the last call was a reset event: construction, reset(), or a window close
WasReset == call.op \in {"new", "reset"} \/ ElapsedMet

\* lines 96-112: the page's globals as the script leaves them when it loads.
\* platform says which sensor interface the browser has; sensors and listeners
\* are the started Accelerometer objects and the registered devicemotion
\* handlers; motion is the reading the device gives during a session; now is
\* Date.now(), counted from the load; session, readings, dropped, labels and
\* last are history: the number of classifier.reset() calls the page has made,
\* the readings handled since the last of them, the samples those calls found
\* in the window, the labels of the results returned since the last of them,
\* and the handler that ran last
AppLoaded(platform) ==
    [platform          |-> platform,
     accelerometer     |-> Null,
     isTracking        |-> FALSE,
     currentMotionType |-> "",
     predictedMotion   |-> "",
     usingDeviceMotion |-> FALSE,
     motionHandler     |-> Null,
     awaiting          |-> FALSE,
     sensors           |-> {},
     listeners         |-> {},
     motion            |-> <<0, 0, 0>>,
     now               |-> 0,
     session           |-> 0,
     readings          |-> 0,
     dropped           |-> 0,
     labels            |-> <<>>,
     last              |-> "load"]

InitWith(configs, platforms) ==
    /\ \E config \in configs :
          /\ given = config
          /\ classifier = MotionClassifier(config)
    /\ call = [op |-> "new", arg |-> Null]
    /\ ret = Null
    /\ pre = classifier
    /\ startUsed = Null
    /\ callsSinceReset = 0
    /\ nextId = 0
    /\ closedIds = {}
    /\ resultIds = <<>>
    /\ fp = [mags |-> <<>>, features |-> Null]
    /\ \E platform \in platforms : app = AppLoaded(platform)

Init == InitWith(ConfigInputs, {"none"})

InitTracked == InitWith(TrackedConfigInputs, {"none"})

Admit(s) ==
    LET out == addSample(classifier, s)
    IN  /\ classifier' = out.this
        /\ call' = [op |-> "addSample", arg |-> Some(s)]
        /\ ret' = out.ret
        /\ pre' = classifier
        /\ startUsed' = out.start
        /\ callsSinceReset' = (IF WasReset THEN 0 ELSE callsSinceReset) + 1
        /\ UNCHANGED <<given, fp>>

\* classifier.addSample({tMs, x, y, z}), sample identities not tracked
AddSample ==
    \E t \in Times, v \in Vectors :
        /\ Len(classifier.samples) < MaxLen
        /\ Admit([tMs |-> t, x |-> v[1], y |-> v[2], z |-> v[3], id |-> 0])
        /\ UNCHANGED <<nextId, closedIds, resultIds, app>>

\* classifier.addSample({tMs, x, y, z}), each sample object with its own identity
AddSampleTracked ==
    \E t \in TrackedTimes, v \in TrackedVectors :
        /\ nextId < MaxCalls
        /\ Admit([tMs |-> t, x |-> v[1], y |-> v[2], z |-> v[3], id |-> nextId])
        /\ nextId' = nextId + 1
        /\ resultIds' = IF ret' # Null
                        THEN Append(resultIds, addSample(classifier,
                                 [tMs |-> t, x |-> v[1], y |-> v[2], z |-> v[3],
                                  id |-> nextId]).counted)
                        ELSE resultIds
        /\ closedIds' =
              IF Elapsed(classifier, [arg |-> Some([tMs |-> t])]) >= classifier.windowMs
              THEN closedIds \cup {nextId}
                       \cup {classifier.samples[i].id : i \in 1..Len(classifier.samples)}
              ELSE closedIds
        /\ UNCHANGED app

\* mutant: the page's call of classifier.reset() is left out
ResetCall_leftOut ==
    UNCHANGED <<classifier, call, ret, pre, startUsed, callsSinceReset>>

\* a call of classifier.reset()
ResetCall ==
    /\ classifier' = reset(classifier)
    /\ call' = [op |-> "reset", arg |-> Null]
    /\ ret' = Null
    /\ pre' = classifier
    /\ startUsed' = Null
    /\ callsSinceReset' = 0

\* classifier.reset()
Reset ==
    /\ ResetCall
    /\ UNCHANGED <<given, nextId, closedIds, resultIds, fp, app>>

(***************************************************************************)
(* The end-to-end scenario: the application's classifier (lines 103-109),  *)
(* or one built with no configuration, fed eleven samples 50 ms apart from *)
(* t = 0 whose magnitudes are 9 or 10.                                     *)
(***************************************************************************)
\* new MotionClassifier({windowMs: 500, minSamples: 10, sitStdThreshold: 0.5,
\* jumpStdThreshold: 3.0, jumpMaxThreshold: 15.0})
AppConfig == Config(Some(500), Some(10), Some(Rat(1, 2)), Some(Num(3)), Some(Num(15)))

NoConfig == Config(Null, Null, Null, Null, Null)

E2ETimes == [k \in 1..11 |-> 50 * (k - 1)]

E2EVectors == {<<0, 0, 9>>, <<6, 8, 0>>}

InitE2E == InitWith({AppConfig, NoConfig}, {"none"})

\* the next sample of the scenario is admitted; nextId counts the samples fed
AddSampleE2E ==
    \E v \in E2EVectors :
        /\ nextId < Len(E2ETimes)
        /\ Admit([tMs |-> E2ETimes[nextId + 1], x |-> v[1], y |-> v[2], z |-> v[3],
                  id |-> nextId])
        /\ nextId' = nextId + 1
        /\ UNCHANGED <<closedIds, resultIds, app>>

\* the doubles 0.1, 0.3, 0.4 and 9.8
F0_1 == [sign |-> 0, man |-> <<6554, 13107, 26214, 204>>, exp |-> -56]
F0_3 == [sign |-> 0, man |-> <<13107, 26214, 19660, 153>>, exp |-> -54]
F0_4 == [sign |-> 0, man |-> <<6554, 13107, 26214, 204>>, exp |-> -54]
F9_8 == [sign |-> 0, man |-> <<6554, 13107, 26214, 156>>, exp |-> -49]

\* accelerometer readings as doubles; their magnitudes are 0.1, 1, 3, 0.5 and 9.8
FloatVectors ==
    {<<F0_1, FZero, FZero>>, <<FInt(1), FZero, FZero>>, <<FZero, FInt(-3), FZero>>,
     <<F0_3, F0_4, FZero>>, <<FZero, FZero, F9_8>>}

InitFloat == InitWith({AppConfig}, {"none"})

\* lines 46-47 and 60-62: a magnitude is pushed and the features of the window
\* that now holds it are computed as a close of that window computes them
PushMagnitude ==
    \E v \in FloatVectors :
        /\ Len(fp.mags) < FMaxLen
        /\ LET mags == Append(fp.mags, magnitudeF(v[1], v[2], v[3]))
           IN  fp' = [mags |-> mags, features |-> Some(extractFeaturesF(mags))]
        /\ UNCHANGED <<classifier, given, call, ret, pre, startUsed, callsSinceReset,
                       nextId, closedIds, resultIds, app>>

(***************************************************************************)
(* The page around the classifier.  The start and stop buttons are shown   *)
(* in turn, so startTracking runs only while nothing is tracked and no     *)
(* earlier startTracking waits for the permission answer, and stopTracking *)
(* only while tracking or on a sensor error.  Readings carry the device's  *)
(* motion of the session; events with a null component, which the handlers *)
(* drop before addSample, are left out.                                    *)
(***************************************************************************)
Platforms == {"Accelerometer", "DeviceMotion", "none"}

MotionInputs == {"", "walk"}

\* a device at rest and a device held under a steady pull above jumpMaxThreshold
Motions == {<<0, 0, 9>>, <<0, 0, 16>>}

\* line 233: frequency 10 asks for readings 100 ms apart; the platform may
\* deliver them later, not sooner
AccelerometerIntervals == {100, 150}

\* devicemotion events come at the interval the browser chooses
DeviceMotionIntervals == {50}

\* a pause of the sample source
StallMs == 250

NoClassifierCall ==
    UNCHANGED <<classifier, call, ret, pre, startUsed, callsSinceReset>>

AppFrame == UNCHANGED <<given, nextId, closedIds, resultIds, fp>>

\* lines 210-307 up to the await of line 296, or to the return before it
StartTracking ==
    \E motionInput \in MotionInputs, motion \in Motions :
        /\ ~app.isTracking /\ ~app.awaiting
        /\ AppFrame
        /\ IF motionInput = ""
           THEN /\ app' = [app EXCEPT !.last = "startTracking: no motion type"]
                /\ NoClassifierCall
           ELSE /\ app.session < MaxSessions
                /\ ResetCall
                /\ LET started == [app EXCEPT !.currentMotionType = motionInput,
                                              !.predictedMotion = "",
                                              !.motion = motion,
                                              !.session = app.session + 1,
                                              !.readings = 0,
                                              !.dropped = @ + Len(classifier.samples),
                                              !.labels = <<>>,
                                              !.last = "startTracking"]
                   IN  app' = CASE app.platform = "Accelerometer" ->
                                     [started EXCEPT
                                         !.accelerometer = Some(started.session),
                                         !.sensors = app.sensors \cup {started.session},
                                         !.usingDeviceMotion = FALSE,
                                         !.isTracking = TRUE]
                                [] app.platform = "DeviceMotion" ->
                                     [started EXCEPT !.awaiting = TRUE]
                                [] OTHER -> started

\* lines 296-303 and 162-208: startTracking goes on once the permission is answered
ResumeStartTracking ==
    \E hasPermission \in BOOLEAN :
        /\ app.awaiting
        /\ AppFrame
        /\ NoClassifierCall
        /\ app' = IF hasPermission
                  THEN [app EXCEPT !.awaiting = FALSE,
                                   !.motionHandler = Some(app.session),
                                   !.listeners = app.listeners \cup {app.session},
                                   !.usingDeviceMotion = TRUE,
                                   !.isTracking = TRUE,
                                   !.last = "startDeviceMotionTracking"]
                  ELSE [app EXCEPT !.awaiting = FALSE,
                                   !.last = "startTracking: no permission"]

\* lines 309-334, called by the stop button or by the sensor's error event
\* (lines 265-275)
StopTracking ==
    \E cause \in {"stop button", "sensor error"} :
        /\ IF cause = "stop button" THEN app.isTracking ELSE app.sensors # {}
        /\ app.session < MaxSessions
        /\ AppFrame
        /\ ResetCall
        /\ LET stopped ==
                   IF app.usingDeviceMotion
                   THEN IF app.motionHandler # Null
                        THEN [app EXCEPT !.listeners = app.listeners \ {app.motionHandler[1]},
                                         !.motionHandler = Null,
                                         !.usingDeviceMotion = FALSE]
                        ELSE [app EXCEPT !.usingDeviceMotion = FALSE]
                   ELSE IF app.accelerometer # Null
                        THEN [app EXCEPT !.sensors = app.sensors \ {app.accelerometer[1]},
                                         !.accelerometer = Null]
                        ELSE app
           IN  app' = [stopped EXCEPT !.predictedMotion = "",
                                      !.isTracking = FALSE,
                                      !.session = app.session + 1,
                                      !.readings = 0,
                                      !.dropped = @ + Len(classifier.samples),
                                      !.labels = <<>>,
                                      !.last = "stopTracking"]

\* mutant: a reading that gives no result clears the prediction
updatePrediction_clearsOnNull(predictedMotion, result) ==
    IF result # Null THEN result[1].label ELSE ""

\* lines 189-192 and 256-259: if (result) predictedMotion = result.label
updatePrediction(predictedMotion, result) ==
    IF result # Null THEN result[1].label ELSE predictedMotion

\* lines 163-197 and 235-263: a reading arrives and its handler runs
SensorReading ==
    \E dt \in AccelerometerIntervals \cup DeviceMotionIntervals :
        /\ \/ app.sensors # {} /\ dt \in AccelerometerIntervals
           \/ app.listeners # {} /\ dt \in DeviceMotionIntervals
        /\ app.now + dt <= MaxNow
        /\ AppFrame
        /\ LET s == [tMs |-> app.now + dt, x |-> app.motion[1], y |-> app.motion[2],
                     z |-> app.motion[3], id |-> app.session]
               result == addSample(classifier, s).ret
           IN  /\ Admit(s)
               /\ app' = [app EXCEPT !.now = app.now + dt,
                                     !.predictedMotion = updatePrediction(@, result),
                                     !.labels = IF result # Null
                                                THEN Append(@, result[1].label) ELSE @,
                                     !.readings = app.readings + 1,
                                     !.last = "reading"]

\* the device's motion changes; followed between windows only
MotionChanges ==
    \E motion \in Motions \ {app.motion} :
        /\ app.isTracking
        /\ classifier.samples = <<>>
        /\ app' = [app EXCEPT !.motion = motion, !.last = "motion changes"]
        /\ NoClassifierCall
        /\ AppFrame

\* time goes by and no handler runs
TimePasses ==
    /\ app.now + StallMs <= MaxNow
    /\ app' = [app EXCEPT !.now = app.now + StallMs, !.last = "time passes"]
    /\ NoClassifierCall
    /\ AppFrame

InitApp == InitWith({AppConfig}, Platforms)

NextApp ==
    \/ StartTracking \/ ResumeStartTracking \/ StopTracking \/ SensorReading
    \/ MotionChanges \/ TimePasses

SpecApp == InitApp /\ [][NextApp]_vars

Next == AddSample \/ Reset

NextFloat == PushMagnitude

SpecFloat == InitFloat /\ [][NextFloat]_vars

NextE2E == AddSampleE2E

SpecE2E == InitE2E /\ [][NextE2E]_vars

NextTracked == AddSampleTracked \/ Reset

Spec == Init /\ [][Next]_vars

SpecTracked == InitTracked /\ [][NextTracked]_vars

(***************************************************************************)
(* Vocabulary of the claims, over the instance and the history of the last *)
(* call.                                                                   *)
(***************************************************************************)
IsAdd == call.op = "addSample"

\* the sample handed to the last addSample call
Arg == call.arg[1]

\* samples accumulated when the last addSample call tested the window,
\* the call's own sample included
CountAfter == Len(pre.samples) + 1

Empty(c) == c.windowStart = Null /\ c.mags = <<>> /\ c.samples = <<>>

Accumulating(c) == c.windowStart # Null /\ Len(c.samples) >= 1

SameConfig(c, e) ==
    /\ c.windowMs = e.windowMs
    /\ c.minSamples = e.minSamples
    /\ c.sitStdThreshold = e.sitStdThreshold
    /\ c.jumpStdThreshold = e.jumpStdThreshold
    /\ c.jumpMaxThreshold = e.jumpMaxThreshold

\* the last call closed a window that held too few samples
Discarded ==
    IsAdd /\ Elapsed(pre, call) >= pre.windowMs /\ CountAfter < pre.minSamples

(***************************************************************************)
(* C1.  addSample returns a result if and only if, with the sample         *)
(* appended, timestamp - windowStart >= windowMs and the number of         *)
(* accumulated samples >= minSamples; otherwise it returns null.           *)
(***************************************************************************)
C1_ResultIffCompleteAndEnough ==
    IsAdd =>
        ((ret # Null) <=>
            (Elapsed(pre, call) >= pre.windowMs /\ CountAfter >= pre.minSamples))

\* a result on the boundary of both conditions, from a window already open
C1_Witness ==
    /\ IsAdd
    /\ ret # Null
    /\ pre.windowStart # Null
    /\ Elapsed(pre, call) = pre.windowMs
    /\ CountAfter = pre.minSamples

(***************************************************************************)
(* C2.  From an empty window, while every sample's timestamp minus the     *)
(* first sample's timestamp is below windowMs, every addSample call        *)
(* returns null, whatever the number of samples and their x, y, z.         *)
(***************************************************************************)
\* the timestamps of the samples admitted since the window was empty, the
\* last call's included
RunTimes == [i \in 1..CountAfter |->
                IF i <= Len(pre.samples) THEN pre.samples[i].tMs ELSE Arg.tMs]

RunWithinWindow == \A i \in 1..CountAfter : RunTimes[i] - RunTimes[1] < pre.windowMs

C2_NoResultWithinWindow == (IsAdd /\ RunWithinWindow) => ret = Null

\* a run of three samples inside the window, more than minSamples of them,
\* with different vectors
C2_Witness ==
    /\ IsAdd
    /\ RunWithinWindow
    /\ CountAfter >= 3
    /\ CountAfter > pre.minSamples
    /\ pre.minSamples > 0
    /\ Arg.z # pre.samples[1].z
    /\ ret = Null

(***************************************************************************)
(* C3.  A window that reaches its duration with fewer than minSamples      *)
(* samples makes addSample return null and leaves the window empty, the    *)
(* closing sample discarded with it; the next admitted sample starts a     *)
(* window whose windowStart is that sample's timestamp.                    *)
(***************************************************************************)
C3_DiscardThenFresh ==
    [][ /\ Discarded' => (ret' = Null /\ Empty(classifier'))
        /\ (Discarded /\ IsAdd') =>
              /\ startUsed' = Some(Arg'.tMs)
              /\ CountAfter' = 1
              /\ ~Empty(classifier') =>
                    /\ classifier'.windowStart = Some(Arg'.tMs)
                    /\ Len(classifier'.samples) = 1
                    /\ classifier'.samples[1].tMs = Arg'.tMs ]_vars

\* a window of two samples was discarded, its start differing from the
\* timestamp that closed it
C3_Witness ==
    /\ Discarded
    /\ Len(pre.samples) = 2
    /\ pre.windowStart # Some(Arg.tMs)
    /\ ret = Null
    /\ Empty(classifier)

C5_WindowInvariant ==
    LET c == classifier IN
    /\ \/ c.windowStart = Null /\ Len(c.samples) = 0
       \/ Len(c.samples) >= 1 /\ c.windowStart = Some(c.samples[1].tMs)
    /\ Len(c.mags) = Len(c.samples)
    /\ \A i \in 1..Len(c.samples) :
          /\ c.mags[i] = c.samples[i].mag
          /\ c.mags[i] = magnitude(c.samples[i].x, c.samples[i].y, c.samples[i].z)
    /\ (IsAdd /\ ~Empty(c)) =>
          /\ Len(c.samples) = CountAfter
          /\ SubSeq(c.samples, 1, Len(pre.samples)) = pre.samples
          /\ c.samples[CountAfter].tMs = Arg.tMs
          /\ c.samples[CountAfter].x = Arg.x
          /\ c.samples[CountAfter].y = Arg.y
          /\ c.samples[CountAfter].z = Arg.z

\* an open window whose later samples carry other timestamps and magnitudes
\* than its first
C5_Witness ==
    /\ Len(classifier.samples) >= 3
    /\ classifier.windowStart = Some(classifier.samples[1].tMs)
    /\ classifier.samples[2].tMs # classifier.samples[1].tMs
    /\ classifier.samples[3].tMs < classifier.samples[1].tMs
    /\ classifier.mags[2] # classifier.mags[1]

(***************************************************************************)
(* C6.  A result's sample count is the number of addSample calls made      *)
(* since the last reset (construction, reset(), or the previous window     *)
(* close), the closing sample counted, and is at least minSamples.         *)
(***************************************************************************)
C6_CountIsCallsSinceReset ==
    ret # Null =>
        /\ ret[1].samples = callsSinceReset
        /\ ret[1].samples >= pre.minSamples

\* a result counting three calls, the minimum being lower
C6_Witness ==
    /\ ret # Null
    /\ ret[1].samples = 3
    /\ callsSinceReset = 3
    /\ pre.minSamples = 2

(***************************************************************************)
(* C7.  Each successfully closed window produces exactly one result, and   *)
(* every admitted sample belongs to exactly one window: it is counted by   *)
(* at most one result, and once its window has closed, classified or       *)
(* discarded, it is in no later window.                                    *)
(***************************************************************************)
WindowIds == {classifier.samples[i].id : i \in 1..Len(classifier.samples)}

PreIds == {pre.samples[i].id : i \in 1..Len(pre.samples)}

C7_OneWindowPerSample ==
    /\ \A i, j \in 1..Len(resultIds) : i # j => resultIds[i] \cap resultIds[j] = {}
    /\ \A i \in 1..Len(resultIds) : resultIds[i] # {} /\ resultIds[i] \subseteq closedIds
    /\ WindowIds \cap closedIds = {}
    /\ Cardinality(WindowIds) = Len(classifier.samples)
    /\ (IsAdd /\ Elapsed(pre, call) >= pre.windowMs /\ CountAfter >= pre.minSamples) =>
          /\ ret # Null
          /\ Len(resultIds) >= 1
          /\ resultIds[Len(resultIds)] = PreIds \cup {Arg.id}
          /\ ret[1].samples = Cardinality(resultIds[Len(resultIds)])
    /\ (IsAdd /\ ret = Null) =>
          \A i \in 1..Len(resultIds) : Arg.id \notin resultIds[i]

\* two windows have each returned a result and a third window is open
C7_Witness ==
    /\ Len(resultIds) = 2
    /\ Cardinality(resultIds[1]) >= 2
    /\ Cardinality(resultIds[2]) >= 2
    /\ Len(classifier.samples) >= 1

(***************************************************************************)
(* C8.  Whenever addSample returns after the elapsed-time condition was    *)
(* met, with a result or having discarded the window, the window is empty  *)
(* and windowStart is null.                                                *)
(***************************************************************************)
C8_ClosedIsResetInSameCall ==
    ElapsedMet =>
        /\ classifier.windowStart = Null
        /\ classifier.mags = <<>>
        /\ classifier.samples = <<>>

\* a window that had accumulated samples was closed with a result
C8_Witness ==
    /\ ElapsedMet
    /\ ret # Null
    /\ Len(pre.samples) >= 2
    /\ classifier.windowStart = Null

(***************************************************************************)
(* C9 as stated.  Between calls the window is always ACCUMULATING; EMPTY   *)
(* is never the state at rest.                                             *)
(***************************************************************************)
C9_OnlyAccumulatingAtRest == call.op # "new" => Accumulating(classifier)

(***************************************************************************)
(* C9 as amended.  Between calls the window is EMPTY or ACCUMULATING and   *)
(* never closed-but-not-reset: EMPTY after construction, after reset() and *)
(* after an addSample that met the elapsed-time condition; ACCUMULATING,   *)
(* every held sample short of the window duration, after any other         *)
(* addSample.                                                              *)
(***************************************************************************)
C9_EmptyOrAccumulatingAtRest ==
    /\ Empty(classifier) \/ Accumulating(classifier)
    /\ Empty(classifier) <=> WasReset
    /\ Accumulating(classifier) =>
          \A i \in 1..Len(classifier.samples) :
              classifier.samples[i].tMs - classifier.windowStart[1] < classifier.windowMs

\* EMPTY at rest after a discarding addSample
C9_Witness ==
    /\ IsAdd
    /\ ElapsedMet
    /\ ret = Null
    /\ Len(pre.samples) >= 1
    /\ Empty(classifier)

(***************************************************************************)
(* C10.  reset() in any window state yields the empty state and leaves the *)
(* configuration alone; a second reset() in a row changes nothing; a       *)
(* sample admitted after reset() starts a window whose windowStart is its  *)
(* timestamp.                                                              *)
(***************************************************************************)
C10_ResetEmptiesIdempotent ==
    [][ /\ call'.op = "reset" =>
              /\ Empty(classifier')
              /\ SameConfig(classifier, classifier')
        /\ (call.op = "reset" /\ call'.op = "reset") => classifier' = classifier
        /\ (call.op = "reset" /\ IsAdd') =>
              /\ startUsed' = Some(Arg'.tMs)
              /\ CountAfter' = 1
              /\ ~Empty(classifier') =>
                    /\ classifier'.windowStart = Some(Arg'.tMs)
                    /\ Len(classifier'.samples) = 1 ]_vars

\* reset() was called on a window holding samples
C10_Witness ==
    /\ call.op = "reset"
    /\ Len(pre.samples) >= 2
    /\ pre.windowStart # Null
    /\ Empty(classifier)

(***************************************************************************)
(* C11 as stated.  Every configuration field that is supplied, zero and    *)
(* negative values included, is stored exactly as given, and a field that  *)
(* is not supplied takes its default.                                      *)
(***************************************************************************)
ConfigDefaults ==
    [windowMs         |-> DefaultWindowMs,
     minSamples       |-> DefaultMinSamples,
     sitStdThreshold  |-> DefaultSitStdThreshold,
     jumpStdThreshold |-> DefaultJumpStdThreshold,
     jumpMaxThreshold |-> DefaultJumpMaxThreshold]

C11_SuppliedStoredAsGiven ==
    \A f \in DOMAIN ConfigDefaults :
        classifier[f] = IF given[f] # Null THEN given[f][1] ELSE ConfigDefaults[f]

(***************************************************************************)
(* C12.  With the default configuration and samples 50 ms apart from t = 0 *)
(* of near-constant magnitude, each of the first ten samples returns no    *)
(* result, and the eleventh, at t = 500, closes the window and returns     *)
(* Sitting with sample count 11, leaving the window empty.                 *)
(***************************************************************************)
C12_EndToEndSitting ==
    /\ classifier.windowMs = 500 /\ classifier.minSamples = 10
    /\ (IsAdd /\ nextId <= 10) =>
          /\ ret = Null
          /\ Len(classifier.samples) = nextId
          /\ Arg.tMs = 50 * (nextId - 1)
    /\ nextId = 11 =>
          /\ Arg.tMs = 500
          /\ ret # Null
          /\ ret[1].label = LABEL_SITTING
          /\ ret[1].samples = 11
          /\ LT(ret[1].features.std_mag, Rat(1, 2))
          /\ LT(ret[1].features.max_mag, Num(15))
          /\ Empty(classifier)

\* the eleventh sample has returned Sitting for a window of mixed magnitudes
C12_Witness ==
    /\ nextId = 11
    /\ ret # Null
    /\ ret[1].label = LABEL_SITTING
    /\ ret[1].samples = 11
    /\ GT(ret[1].features.std_mag, Num(0))
    /\ given = AppConfig

(***************************************************************************)
(* C13.  As stated: the features of a window are the arithmetic mean, the  *)
(* population standard deviation and the maximum of its magnitudes, so     *)
(* that a window of n >= 1 identical magnitudes m has mean_mag = m,        *)
(* std_mag = 0 and max_mag = m, and every window has mean_mag <= max_mag   *)
(* and std_mag >= 0.  The code computes in doubles, where three            *)
(* magnitudes 0.1 sum to 0.30000000000000004.                              *)
(***************************************************************************)
Mags == fp.mags
Features == fp.features[1]
Identical == \A i \in 1..Len(Mags) : Mags[i] = Mags[1]
\* an integer below 2^21: sums of a window of these are exact
IsSmallInteger(a) ==
    \/ a.man = <<>>
    \/ /\ a.exp >= -52 /\ a.exp <= -32
       /\ BShl(BShr(a.man, -a.exp), -a.exp) = a.man
ExactSums == Len(Mags) <= 2 \/ \A i \in 1..Len(Mags) : IsSmallInteger(Mags[i])

C13_FeaturesExact ==
    fp.features # Null =>
        /\ Identical => /\ Features.mean_mag = Mags[1]
                        /\ Features.std_mag = FZero
                        /\ Features.max_mag = Mags[1]
        /\ ~FLess(Features.max_mag, Features.mean_mag)
        /\ ~FLess(Features.std_mag, FZero)

(***************************************************************************)
(* C13, amended: max_mag is the maximum of the magnitudes and std_mag >= 0 *)
(* always; a window of identical magnitudes m has max_mag = m, and has     *)
(* mean_mag = m and std_mag = 0 when its running sums are exact (at most   *)
(* two magnitudes, or small integers such as ten 1s); with exact sums      *)
(* mean_mag <= max_mag; and the deviation is the population one: two       *)
(* small integers a and b give std_mag = |a - b| / 2.                      *)
(***************************************************************************)
C13_FeaturesRounded ==
    fp.features # Null =>
        /\ \E i \in 1..Len(Mags) : Features.max_mag = Mags[i]
        /\ \A i \in 1..Len(Mags) : ~FLess(Features.max_mag, Mags[i])
        /\ ~FLess(Features.std_mag, FZero)
        /\ Identical => Features.max_mag = Mags[1]
        /\ (Identical /\ ExactSums) =>
              /\ Features.mean_mag = Mags[1]
              /\ Features.std_mag = FZero
        /\ ExactSums => ~FLess(Features.max_mag, Features.mean_mag)
        /\ (Len(Mags) = 2 /\ IsSmallInteger(Mags[1]) /\ IsSmallInteger(Mags[2])) =>
              FAdd(Features.std_mag, Features.std_mag)
                  = [FSub(Mags[1], Mags[2]) EXCEPT !.sign = 0]

C13_Witness ==
    /\ Len(Mags) = 3 /\ Identical /\ IsSmallInteger(Mags[1]) /\ Mags[1] = FInt(1)
    /\ Features.mean_mag = FInt(1) /\ Features.std_mag = FZero

(***************************************************************************)
(* C15.  The configuration is immutable for the lifetime of an instance:   *)
(* every addSample and reset call leaves windowMs, minSamples and the      *)
(* three thresholds as the constructor set them, and the instance has no   *)
(* fields besides these and windowStart, mags and samples.                 *)
(***************************************************************************)
C15_ConfigImmutable ==
    [][/\ SameConfig(classifier', classifier)
       /\ SameConfig(classifier', MotionClassifier(given))
       /\ DOMAIN classifier' = DOMAIN MotionClassifier(given)
       /\ DOMAIN classifier' =
             DOMAIN ConfigDefaults \cup {"windowStart", "mags", "samples"}]_vars

C15_Witness ==
    /\ IsAdd /\ ret # Null /\ Empty(classifier)
    /\ classifier.windowMs # DefaultWindowMs
    /\ classifier.minSamples # DefaultMinSamples
    /\ classifier.sitStdThreshold # DefaultSitStdThreshold
    /\ SameConfig(classifier, pre)

(***************************************************************************)
(* C19.  Between calls, whatever the order of the timestamps, every sample *)
(* held in the window has timestamp - windowStart < windowMs; and in every *)
(* returned result the last counted sample, the one the call was handed,   *)
(* is the only one with timestamp - windowStart >= windowMs.               *)
(***************************************************************************)
C19_HeldSamplesInsideWindow ==
    /\ \A i \in 1..Len(classifier.samples) :
          /\ classifier.windowStart # Null
          /\ classifier.samples[i].tMs - classifier.windowStart[1] < classifier.windowMs
    /\ (IsAdd /\ ret # Null) =>
          /\ ret[1].samples = Len(pre.samples) + 1
          /\ Arg.tMs - startUsed[1] >= pre.windowMs
          /\ \A i \in 1..Len(pre.samples) :
                pre.samples[i].tMs - startUsed[1] < pre.windowMs

\* a result whose earlier samples arrived out of order, one of them stamped
\* before the window start
C19_Witness ==
    /\ IsAdd /\ ret # Null /\ Len(pre.samples) >= 2
    /\ \E i \in 1..Len(pre.samples) : pre.samples[i].tMs < startUsed[1]
    /\ \A i \in 1..Len(pre.samples) : pre.samples[i].tMs - startUsed[1] < pre.windowMs
    /\ Arg.tMs - startUsed[1] >= pre.windowMs

(***************************************************************************)
(* C17.  As stated: with sitStdThreshold > jumpStdThreshold no result is   *)
(* labelled Walk, and with sitStdThreshold <= jumpStdThreshold there is a  *)
(* window, its deviation between the two thresholds and its maximum at     *)
(* most jumpMaxThreshold, that is labelled Walk.  The windows tried are    *)
(* those of up to MaxLen magnitudes of the readings in Vectors.            *)
(***************************************************************************)
RECURSIVE WindowsUpTo(_)
WindowsUpTo(k) ==
    IF k = 0 THEN {}
    ELSE WindowsUpTo(k - 1)
         \cup [1..k -> {magnitude(v[1], v[2], v[3]) : v \in Vectors}]

IsWalkWindow(this, features) ==
    /\ ~LT(features.std_mag, this.sitStdThreshold)
    /\ ~GT(features.std_mag, this.jumpStdThreshold)
    /\ ~GT(features.max_mag, this.jumpMaxThreshold)

C17_WalkReachableIffOrdered ==
    /\ LT(classifier.jumpStdThreshold, classifier.sitStdThreshold) =>
          (ret # Null => ret[1].label # LABEL_WALK)
    /\ ~LT(classifier.jumpStdThreshold, classifier.sitStdThreshold) =>
          \E w \in WindowsUpTo(MaxLen) :
              LET this == [classifier EXCEPT !.mags = w]
              IN  /\ IsWalkWindow(this, extractFeatures(this))
                  /\ classify(this, extractFeatures(this)) = LABEL_WALK

(***************************************************************************)
(* C17, amended: a result is labelled Walk exactly when its deviation is   *)
(* neither below sitStdThreshold nor above jumpStdThreshold and its        *)
(* maximum is not above jumpMaxThreshold.  Magnitudes are never negative   *)
(* and the deviation is at most half the maximum, so a Walk result needs   *)
(* sitStdThreshold <= jumpStdThreshold, jumpStdThreshold >= 0,             *)
(* jumpMaxThreshold >= 0 and sitStdThreshold <= jumpMaxThreshold / 2; with *)
(* sitStdThreshold <= jumpStdThreshold but, say, a negative                *)
(* jumpMaxThreshold, Walk is as unreachable as with the thresholds out of  *)
(* order.                                                                  *)
(***************************************************************************)
C17_WalkOnlyBetweenThresholds ==
    ret # Null =>
        LET f == ret[1].features IN
        /\ ret[1].label = LABEL_WALK <=> IsWalkWindow(pre, f)
        /\ ~GT(f.std_mag, RatDivInt(f.max_mag, 2))
        /\ ret[1].label = LABEL_WALK =>
              /\ ~LT(pre.jumpStdThreshold, pre.sitStdThreshold)
              /\ ~LT(pre.jumpStdThreshold, Num(0))
              /\ ~LT(pre.jumpMaxThreshold, Num(0))
              /\ ~LT(RatDivInt(pre.jumpMaxThreshold, 2), pre.sitStdThreshold)

\* a Walk result under thresholds in order, and the same configuration
\* answering Jump for a window whose maximum is too high
C17_Witness ==
    /\ ret # Null /\ ret[1].label = LABEL_WALK
    /\ LT(pre.sitStdThreshold, pre.jumpStdThreshold)
    /\ GT(ret[1].features.std_mag, pre.sitStdThreshold)
    /\ LT(ret[1].features.std_mag, pre.jumpStdThreshold)

(***************************************************************************)
(* C16.  stopTracking and startTracking with a motion type reset the       *)
(* classifier and clear the prediction: from such a call until the next    *)
(* reading the window is empty and predictedMotion is '', every sample in  *)
(* the window was admitted since the last such call, and so was every      *)
(* sample a result counts.                                                 *)
(***************************************************************************)
C16_SessionsDoNotMix ==
    /\ (app.session > 0 /\ app.readings = 0) =>
          /\ Empty(classifier)
          /\ app.predictedMotion = ""
    /\ app.last \in {"startTracking", "stopTracking"} =>
          /\ call.op = "reset"
          /\ app.readings = 0
    /\ Len(classifier.samples) <= app.readings
    /\ \A i \in 1..Len(classifier.samples) : classifier.samples[i].id = app.session
    /\ (app.last = "reading" /\ ret # Null) =>
          /\ Arg.id = app.session
          /\ \A i \in 1..Len(pre.samples) : pre.samples[i].id = app.session
          /\ ret[1].samples <= app.readings
          /\ app.predictedMotion = ret[1].label

\* a window is classified in a session that follows one whose samples were
\* thrown away by stopTracking
C16_Witness ==
    /\ app.session = 3 /\ app.dropped > 0 /\ app.isTracking
    /\ app.last = "reading" /\ ret # Null
    /\ ret[1].samples = Len(pre.samples) + 1
    /\ app.predictedMotion = ret[1].label

(***************************************************************************)
(* C18.  The window changes only inside addSample and reset calls: while   *)
(* time passes without a reading it keeps its contents, however long, and  *)
(* a reading closes it exactly when the reading's own timestamp minus      *)
(* windowStart is at least windowMs.                                       *)
(***************************************************************************)
C18_ClosedBySampleTimestampsOnly ==
    [][/\ classifier' # classifier =>
             /\ app'.last \in {"reading", "startTracking", "stopTracking"}
             /\ call'.op \in {"addSample", "reset"}
             /\ pre' = classifier
       /\ app'.last = "time passes" =>
             /\ app'.now > app.now
             /\ classifier' = classifier
       /\ app'.last = "reading" =>
             LET tMs == call'.arg[1].tMs
                 windowStart == IF classifier.windowStart = Null
                                THEN tMs ELSE classifier.windowStart[1]
             IN  /\ startUsed' = Some(windowStart)
                 /\ Empty(classifier') <=> tMs - windowStart >= classifier.windowMs
                 /\ ~Empty(classifier') =>
                       /\ classifier'.windowStart = Some(windowStart)
                       /\ Len(classifier'.samples) = Len(classifier.samples) + 1
                       /\ SubSeq(classifier'.samples, 1, Len(classifier.samples))
                             = classifier.samples
                       /\ classifier'.samples[Len(classifier'.samples)].tMs = tMs]_vars

\* a window still open, with its samples, when more than windowMs has gone by
\* since its start
C18_Witness ==
    /\ app.last = "time passes"
    /\ Accumulating(classifier)
    /\ app.now - classifier.windowStart[1] >= classifier.windowMs
    /\ classifier = pre \/ call.op = "addSample"

(***************************************************************************)
(* C20.  Tracking through the Accelerometer interface, with readings 100   *)
(* ms or more apart and the page's classifier (500 ms, 10 samples), a      *)
(* window is eventually classified and predictedMotion becomes a label.    *)
(* Stated for a finite run: eventually is taken as once a session has      *)
(* handled more readings than minSamples, which at this rate is more than  *)
(* two window lengths after the first.                                     *)
(***************************************************************************)
C20_AccelerometerEventuallyClassified ==
    (/\ app.platform = "Accelerometer" /\ app.isTracking
     /\ app.readings > classifier.minSamples) =>
        app.predictedMotion \in {LABEL_SITTING, LABEL_WALK, LABEL_JUMP}

\* what the code does instead: on this path no addSample call returns a result
AccelerometerNeverClassified ==
    app.platform = "Accelerometer" =>
        /\ app.predictedMotion = ""
        /\ ret = Null
        /\ Len(classifier.samples) < classifier.minSamples

(***************************************************************************)
(* C21.  In a tracking session predictedMotion is '' until the session's   *)
(* first classified window and from then on the label of its most recent   *)
(* one: a reading that returns no result, a discarded window included,     *)
(* leaves it as it was, and only stopTracking and startTracking clear it.  *)
(***************************************************************************)
LatestLabel(labels) == IF labels = <<>> THEN "" ELSE labels[Len(labels)]

C21_PredictionIsLatestLabel ==
    [][/\ app'.predictedMotion = LatestLabel(app'.labels)
       /\ (app'.last = "reading" /\ ret' # Null) =>
             app'.predictedMotion = ret'[1].label
       /\ (app'.last = "reading" /\ ret' = Null) =>
             app'.predictedMotion = app.predictedMotion
       /\ app'.last \in {"startTracking", "stopTracking"} =>
             app'.predictedMotion = ""
       /\ app'.predictedMotion # app.predictedMotion =>
             app'.last \in {"reading", "startTracking", "stopTracking"}]_vars

\* a session's second classified window, Jump after Sitting, sets the prediction
C21_Witness ==
    /\ app.isTracking /\ app.last = "reading" /\ ret # Null
    /\ app.labels = <<LABEL_SITTING, LABEL_JUMP>>
    /\ ret[1].label = LABEL_JUMP
    /\ app.predictedMotion = LABEL_JUMP
====
